---- MODULE Spec2Model ----
(***************************************************************************)
(* Model of the Googlebot verification service (src/src/main.rs).          *)
(*                                                                         *)
(* One inbound request is handled by one run of `main`.  The run is cut    *)
(* at the only point where the program waits for the outside world, the    *)
(* `send` to the DNS resolver (main.rs:118): everything before it is one   *)
(* step, everything after it is one step.                                  *)
(*                                                                         *)
(* Strings whose content the program inspects (the ip parameter, the PTR   *)
(* hostname, the lookup URI) are sequences of one-character strings, so    *)
(* that parsing, formatting and suffix matching are computed and not       *)
(* assumed.                                                                *)
(***************************************************************************)
EXTENDS Integers, Sequences, FiniteSets, TLC

VARIABLES
    pc,         \* position of the run: "start", "sending", "done", "panicked"
    req,        \* the inbound Request: method, path, qs_params
    uri,        \* the uri of dns_request handed to send (<<>> before a send)
    lookups,    \* number of times send(DNS_RESOLVER) was called
    beresp,     \* what the resolver gave back
    outcome,    \* the Outcome value constructed by the run, or NoOutcome
    renders,    \* number of times From<Outcome> for Response ran
    resp        \* the Response returned by main, or NoResponse

vars == <<pc, req, uri, lookups, beresp, outcome, renders, resp>>

----------------------------------------------------------------------------
(* Bounds of the model *)

\* largest number of dot-separated parts in a generated ip parameter
MaxParts == 4
\* largest number of entries in a generated Answer array
MaxAnswers == 2

----------------------------------------------------------------------------
(* Characters and decimal numbers *)

Digits == <<"0", "1", "2", "3", "4", "5", "6", "7", "8", "9">>

IsDigit(c) == \E i \in 1..10 : Digits[i] = c

DigitVal(c) == (CHOOSE i \in 1..10 : Digits[i] = c) - 1

Dot == <<".">>

\* u8 Display: decimal, no sign, no padding
FormatU8(n) ==
    IF n < 10 THEN <<Digits[n + 1]>>
    ELSE IF n < 100 THEN <<Digits[(n \div 10) + 1], Digits[(n % 10) + 1]>>
    ELSE <<Digits[(n \div 100) + 1], Digits[((n \div 10) % 10) + 1], Digits[(n % 10) + 1]>>

----------------------------------------------------------------------------
(* ip.parse::<Ipv4Addr>()  (main.rs:108)                                    *)
(* Four decimal numbers separated by '.', each of one to three digits,     *)
(* without a leading zero unless it is the single digit 0, each at most    *)
(* 255, and nothing after the fourth.                                      *)

NoneAddr == [ok |-> FALSE, octets |-> <<>>]

\* number of consecutive digits of s starting at position p
RECURSIVE DigitRun(_, _)
DigitRun(s, p) ==
    IF p <= Len(s) /\ IsDigit(s[p]) THEN 1 + DigitRun(s, p + 1) ELSE 0

\* value of the n digits of s starting at position p
RECURSIVE DigitsValue(_, _, _)
DigitsValue(s, p, n) ==
    IF n = 0 THEN 0
    ELSE 10 * DigitsValue(s, p, n - 1) + DigitVal(s[p + n - 1])

\* ReadOctet without the check that the number fits an octet
ReadOctet_NoRangeCheck(s, p) ==
    LET n == DigitRun(s, p)
    IN  IF n = 0 \/ n > 3 THEN [ok |-> FALSE, val |-> 0, next |-> p]
        ELSE IF n > 1 /\ s[p] = "0" THEN [ok |-> FALSE, val |-> 0, next |-> p]
        ELSE [ok |-> TRUE, val |-> DigitsValue(s, p, n), next |-> p + n]

\* read one octet at position p: [ok, val, next]
ReadOctet(s, p) ==
    LET n == DigitRun(s, p)
    IN  IF n = 0 \/ n > 3 THEN [ok |-> FALSE, val |-> 0, next |-> p]
        ELSE IF n > 1 /\ s[p] = "0" THEN [ok |-> FALSE, val |-> 0, next |-> p]
        ELSE IF DigitsValue(s, p, n) > 255 THEN [ok |-> FALSE, val |-> 0, next |-> p]
        ELSE [ok |-> TRUE, val |-> DigitsValue(s, p, n), next |-> p + n]

\* read the groups i..4 starting at position p, a '.' before every group but the first
RECURSIVE ReadGroups(_, _, _, _)
ReadGroups(s, p, i, acc) ==
    IF i > 4 THEN
        IF p = Len(s) + 1 THEN [ok |-> TRUE, octets |-> acc] ELSE NoneAddr
    ELSE
        LET q == IF i = 1 THEN p ELSE p + 1
            sepOk == i = 1 \/ (p <= Len(s) /\ s[p] = ".")
            r == ReadOctet(s, q)
        IN  IF sepOk /\ r.ok THEN ReadGroups(s, r.next, i + 1, Append(acc, r.val))
            ELSE NoneAddr

ParseIpv4(s) == ReadGroups(s, 1, 1, <<>>)

----------------------------------------------------------------------------
(* The lookup uri  (main.rs:111-114) *)

UriPrefix == <<"https://dns.google.com/resolve?name=">>
UriSuffix == <<".in-addr.arpa&type=PTR">>

\* LookupUri with the octets in the order of the address
LookupUri_Forward(ipv4_octets) ==
    UriPrefix
        \o FormatU8(ipv4_octets[1]) \o Dot
        \o FormatU8(ipv4_octets[2]) \o Dot
        \o FormatU8(ipv4_octets[3]) \o Dot
        \o FormatU8(ipv4_octets[4])
        \o UriSuffix

LookupUri(ipv4_octets) ==
    UriPrefix
        \o FormatU8(ipv4_octets[4]) \o Dot
        \o FormatU8(ipv4_octets[3]) \o Dot
        \o FormatU8(ipv4_octets[2]) \o Dot
        \o FormatU8(ipv4_octets[1])
        \o UriSuffix

----------------------------------------------------------------------------
(* serde_json::Value as the program reads it  (main.rs:124-125)            *)
(* A value is [t, v]: t the kind, v the payload.  An object is a sequence  *)
(* of <<key, value>> members; a key given twice keeps its last value.      *)

JNull == [t |-> "null", v |-> <<>>]
JNum(n) == [t |-> "num", v |-> n]
JStr(s) == [t |-> "str", v |-> s]
JArr(a) == [t |-> "arr", v |-> a]
JObj(m) == [t |-> "obj", v |-> m]

\* value[key]: the member of an object, Null for a missing key or a non-object
IndexKey(value, key) ==
    IF value.t = "obj" /\ \E i \in 1..Len(value.v) : value.v[i][1] = key
    THEN LET last == CHOOSE i \in 1..Len(value.v) :
                        /\ value.v[i][1] = key
                        /\ \A j \in (i + 1)..Len(value.v) : value.v[j][1] # key
         IN  value.v[last][2]
    ELSE JNull

\* value[n], n counted from 0: the element of an array, Null when out of
\* range or when value is no array
IndexPos(value, n) ==
    IF value.t = "arr" /\ n < Len(value.v) THEN value.v[n + 1] ELSE JNull

NoneStr == [some |-> FALSE, s |-> <<>>]
SomeStr(s) == [some |-> TRUE, s |-> s]

\* as_str that renders a value that is no string instead of giving None
as_str_Display(value) ==
    IF value.t = "str" THEN SomeStr(value.v) ELSE SomeStr(<<value.t>>)

\* Value::as_str
as_str(value) == IF value.t = "str" THEN SomeStr(value.v) ELSE NoneStr

\* PtrRecord reading the last entry of Answer instead of the first
PtrRecord_LastEntry(dns_data) ==
    LET answer == IndexKey(dns_data, "Answer")
        n == IF answer.t = "arr" THEN Len(answer.v) ELSE 0
    IN  as_str(IndexKey(IndexPos(answer, IF n = 0 THEN 0 ELSE n - 1), "data"))

\* dns_data["Answer"][0]["data"].as_str()
PtrRecord(dns_data) ==
    as_str(IndexKey(IndexPos(IndexKey(dns_data, "Answer"), 0), "data"))

----------------------------------------------------------------------------
(* The suffix test  (main.rs:129) *)

GoogleSuffix == <<".", "g", "o", "o", "g", "l", "e", ".", "c", "o", "m", ".">>
GooglebotSuffix ==
    <<".", "g", "o", "o", "g", "l", "e", "b", "o", "t", ".", "c", "o", "m", ".">>

\* ends_with that accepts the suffix anywhere in s
ends_with_Contains(s, suffix) ==
    \E i \in 1..(Len(s) - Len(suffix) + 1) : SubSeq(s, i, i + Len(suffix) - 1) = suffix

\* str::ends_with
ends_with(s, suffix) ==
    /\ Len(s) >= Len(suffix)
    /\ SubSeq(s, Len(s) - Len(suffix) + 1, Len(s)) = suffix

----------------------------------------------------------------------------
(* Outcome  (main.rs:12-25) *)

NoOutcome == [tag |-> "none", ptr_record |-> <<>>]
MissingQueryString == [tag |-> "MissingQueryString", ptr_record |-> <<>>]
InvalidQueryString == [tag |-> "InvalidQueryString", ptr_record |-> <<>>]
GoogleDnsFailed == [tag |-> "GoogleDnsFailed", ptr_record |-> <<>>]
IsGoogleBot(ptr_record) == [tag |-> "IsGoogleBot", ptr_record |-> ptr_record]
NotGoogleBot(ptr_record) == [tag |-> "NotGoogleBot", ptr_record |-> ptr_record]
NoPtrAnswer == [tag |-> "NoPtrAnswer", ptr_record |-> <<>>]

OutcomeTags ==
    {"MissingQueryString", "InvalidQueryString", "GoogleDnsFailed",
     "IsGoogleBot", "NotGoogleBot", "NoPtrAnswer"}

\* the match of main.rs:127-140
Decide(ptr_record) ==
    IF ptr_record.some
          /\ (ends_with(ptr_record.s, GoogleSuffix) \/ ends_with(ptr_record.s, GooglebotSuffix))
    THEN IsGoogleBot(ptr_record.s)
    ELSE IF ptr_record.some THEN NotGoogleBot(ptr_record.s)
    ELSE NoPtrAnswer

----------------------------------------------------------------------------
(* Responses *)

OK == 200
BAD_REQUEST == 400
NOT_FOUND == 404
BAD_GATEWAY == 502

NoResponse ==
    [status |-> 0, content_type |-> "", verified |-> "",
     body |-> [kind |-> "none", result |-> "", text |-> <<>>]]

JsonBody(result, reason) == [kind |-> "json", result |-> result, text |-> reason]
TextBody(text) == [kind |-> "text", result |-> "", text |-> text]

\* the (result, reason, status) triple of main.rs:31-65
Triple(o) ==
    IF o.tag = "MissingQueryString" THEN
        <<"error", <<"Missing query string ?ip=a.b.c.d">>, BAD_REQUEST>>
    ELSE IF o.tag = "InvalidQueryString" THEN
        <<"error", <<"Invalid query string ?ip=a.b.c.d">>, BAD_REQUEST>>
    ELSE IF o.tag = "GoogleDnsFailed" THEN
        <<"error", <<"Google DNS failed">>, BAD_GATEWAY>>
    ELSE IF o.tag = "IsGoogleBot" THEN
        <<"yes", <<"Reverse lookup is ">> \o o.ptr_record, OK>>
    ELSE IF o.tag = "NotGoogleBot" THEN
        <<"no",
          <<"Reverse lookup is ">> \o o.ptr_record
              \o <<", not an *.google.com or *.googlebot.com domain.">>,
          OK>>
    ELSE
        <<"no", <<"No PTR Answer for this reverse lookup.">>, OK>>

\* From<Outcome> that drops the status of the triple
FromOutcome_AlwaysOk(o) ==
    LET t == Triple(o)
    IN  [status |-> OK, content_type |-> "application/json", verified |-> t[1],
         body |-> JsonBody(t[1], t[2])]

\* impl From<Outcome> for Response  (main.rs:28-77)
FromOutcome(o) ==
    LET t == Triple(o)
    IN  [status |-> t[3], content_type |-> "application/json", verified |-> t[1],
         body |-> JsonBody(t[1], t[2])]

\* the Err arm of main  (main.rs:85-86)
ErrorResponse(error) ==
    [status |-> BAD_REQUEST, content_type |-> "text/plain; charset=utf-8", verified |-> "",
     body |-> TextBody(<<"ERROR: ", error>>)]

\* the catch-all arm of main  (main.rs:90-92)
NotFoundResponse ==
    [status |-> NOT_FOUND, content_type |-> "", verified |-> "",
     body |-> TextBody(<<"Either the page you requested could not be found or the HTTP method is not GET.\n">>)]

----------------------------------------------------------------------------
(* Inbound requests *)

Methods == {"GET", "POST"}
Paths == {"/verify", "/"}

ValidOctetParts == {<<"0">>, <<"2", "5", "5">>}
Parts == ValidOctetParts \cup {<<>>, <<"2", "5", "6">>, <<"0", "1">>, <<"a">>}

RECURSIVE JoinDots(_)
JoinDots(ps) ==
    IF Len(ps) = 0 THEN <<>>
    ELSE IF Len(ps) = 1 THEN ps[1]
    ELSE ps[1] \o Dot \o JoinDots(Tail(ps))

GeneratedIps == UNION {{JoinDots(ps) : ps \in [1..n -> Parts]} : n \in 1..MaxParts}

Ip1234 == <<"1", ".", "2", ".", "3", ".", "4">>
IpCrawler == <<"6", "6", ".", "2", "4", "9", ".", "6", "6", ".", "1">>

ExtraIps ==
    {Ip1234, IpCrawler,
     <<":", ":", "1">>,
     <<"e", "x", "a", "m", "p", "l", "e", ".", "c", "o", "m">>,
     <<"1", ".", "2", ".", "3", ".", "4", ".", "5">>,
     <<"1", "2", "3", "4", ".", "0", ".", "0", ".", "0">>,
     <<" ", "1", ".", "2", ".", "3", ".", "4">>,
     <<"1", ".", "2", ".", "3", ".", "4", "/">>,
     <<"+", "1", ".", "2", ".", "3", ".", "4">>}

IpInputs == GeneratedIps \cup ExtraIps

\* query parameters other than ip that a request may carry
OtherParams == {{}, {<<"addr", Ip1234>>, <<"IP", IpCrawler>>}}

\* the HashMap of get_query: a set of <<key, value>> with distinct keys
QueryMaps ==
    OtherParams \cup {o \cup {<<"ip", v>>} : o \in OtherParams, v \in IpInputs}

\* HashMap::get
MapGet(qs_params, key) ==
    IF \E kv \in qs_params : kv[1] = key
    THEN SomeStr((CHOOSE kv \in qs_params : kv[1] = key)[2])
    ELSE NoneStr

NoRequest == [method |-> "", path |-> "", qs_params |-> {}]

----------------------------------------------------------------------------
(* What the resolver can give back *)

s_google == <<"g", "o", "o", "g", "l", "e">>
s_googlebot == s_google \o <<"b", "o", "t">>
s_com == <<"c", "o", "m">>
s_evil == <<"e", "v", "i", "l">>
s_crawl == <<"c", "r", "a", "w", "l", "-", "6", "6", "-", "1">>

HostCrawl == s_crawl \o Dot \o s_googlebot \o Dot \o s_com \o Dot
HostGoogle == <<"a">> \o Dot \o s_google \o Dot \o s_com \o Dot
HostEvilExample == s_evil \o Dot \o <<"e", "x">> \o Dot \o s_com \o Dot
HostSubEvilGoogle == <<"s", "u", "b">> \o Dot \o s_evil \o s_google \o Dot \o s_com \o Dot
HostEvilGoogle == s_evil \o s_google \o Dot \o s_com \o Dot
HostNoTrailingDot == <<"a">> \o Dot \o s_google \o Dot \o s_com
HostUpper == <<"a">> \o Dot \o <<"G", "O", "O", "G", "L", "E">> \o Dot \o <<"C", "O", "M">> \o Dot
HostMiddle == HostGoogle \o s_evil \o Dot \o <<"n", "e", "t">> \o Dot
HostBareGoogle == s_google \o Dot \o s_com \o Dot
HostEmpty == <<>>

Hostnames ==
    {HostCrawl, HostGoogle, GoogleSuffix, HostEvilExample, HostSubEvilGoogle,
     HostEvilGoogle, HostNoTrailingDot, HostUpper, HostMiddle, HostBareGoogle,
     HostEmpty}

PtrEntry(h) ==
    JObj(<< <<"name", JStr(<<"1.0.0.0.in-addr.arpa.">>)>>, <<"type", JNum(12)>>,
            <<"data", JStr(h)>> >>)

Entries ==
    {PtrEntry(h) : h \in Hostnames}
        \cup {JNull,
              JStr(HostGoogle),
              JObj(<< <<"name", JStr(HostGoogle)>> >>),
              JObj(<< <<"data", JNull>> >>),
              JObj(<< <<"data", JNum(12)>> >>),
              JObj(<< <<"data", JStr(HostGoogle)>>, <<"data", JStr(HostEvilExample)>> >>)}

AnswerArrays == UNION {[1..n -> Entries] : n \in 0..MaxAnswers}

Answered(a) == JObj(<< <<"Status", JNum(0)>>, <<"Answer", JArr(a)>> >>)

JsonValues ==
    {Answered(a) : a \in AnswerArrays}
        \cup {JNull,
              JNum(0),
              JStr(HostGoogle),
              JArr(<<PtrEntry(HostGoogle)>>),
              JObj(<<>>),
              JObj(<< <<"Status", JNum(3)>> >>),
              JObj(<< <<"answer", JArr(<<PtrEntry(HostGoogle)>>)>> >>),
              JObj(<< <<"Answer", JNull>> >>),
              JObj(<< <<"Answer", JStr(HostGoogle)>> >>),
              JObj(<< <<"Answer", PtrEntry(HostGoogle)>> >>)}

\* a body is bytes that are not UTF-8, text that is not JSON, or JSON text
NotUtf8 == [kind |-> "not_utf8", value |-> JNull]
NotJson == [kind |-> "not_json", value |-> JNull]
Json(v) == [kind |-> "json", value |-> v]

Bodies == {NotUtf8, NotJson} \cup {Json(v) : v \in JsonValues}

OtherStatuses == {199, 204, 299, 300, 404, 503}
FewBodies == {NotJson, Json(JObj(<<>>)), Json(Answered(<<PtrEntry(HostCrawl)>>))}

BackendResponses ==
    {[status |-> OK, body |-> b] : b \in Bodies}
        \cup {[status |-> st, body |-> b] : st \in OtherStatuses, b \in FewBodies}

NoBackendResponse == [status |-> 0, body |-> [kind |-> "none", value |-> JNull]]

\* send returned Err(SendError): there is no response
SendError == [status |-> 0, body |-> [kind |-> "send_error", value |-> JNull]]

\* StatusCode::is_success
is_success(status) == 200 <= status /\ status < 300

----------------------------------------------------------------------------
(* main and handle_lookup_request *)

\* IsVerifyRoute that forgets the method
IsVerifyRoute_AnyMethod(method, path) == path = "/verify"

\* the match of main  (main.rs:82-83)
IsVerifyRoute(method, path) == method = "GET" /\ path = "/verify"

\* handle_lookup_request up to the send  (main.rs:97-116): an Outcome to
\* render, or the uri to look up.  get_query (main.rs:98) decodes into a
\* HashMap<String, String>, which accepts every query string (an absent one
\* is the empty map), so its `?` has no failing case to model.
BeforeSend(qs_params) ==
    LET ip == MapGet(qs_params, "ip")
        ipv4 == ParseIpv4(ip.s)
    IN  IF ~ip.some THEN [kind |-> "outcome", outcome |-> MissingQueryString, uri |-> <<>>]
        ELSE IF ipv4.ok THEN [kind |-> "send", outcome |-> NoOutcome, uri |-> LookupUri(ipv4.octets)]
        ELSE [kind |-> "outcome", outcome |-> InvalidQueryString, uri |-> <<>>]

\* handle_lookup_request after a send that returned a response
\* (main.rs:119-142): an Outcome to render, or a panic (take_body_str on a
\* body that is not UTF-8, unwrap of a serde_json error)
AfterSend(r) ==
    IF ~is_success(r.status) THEN [kind |-> "outcome", outcome |-> GoogleDnsFailed]
    ELSE IF r.body.kind # "json" THEN [kind |-> "panic", outcome |-> NoOutcome]
    ELSE [kind |-> "outcome", outcome |-> Decide(PtrRecord(r.body.value))]

Init ==
    /\ pc = "start"
    /\ req = NoRequest
    /\ uri = <<>>
    /\ lookups = 0
    /\ beresp = NoBackendResponse
    /\ outcome = NoOutcome
    /\ renders = 0
    /\ resp = NoResponse

\* main receives a request and runs until it returns or waits in send
Main(method, path, qs_params) ==
    /\ pc = "start"
    /\ req' = [method |-> method, path |-> path, qs_params |-> qs_params]
    /\ UNCHANGED beresp
    /\ IF ~IsVerifyRoute(method, path) THEN
            /\ pc' = "done"
            /\ resp' = NotFoundResponse
            /\ UNCHANGED <<uri, lookups, outcome, renders>>
       ELSE LET b == BeforeSend(qs_params)
            IN  IF b.kind = "send" THEN
                    /\ pc' = "sending"
                    /\ uri' = b.uri
                    /\ lookups' = lookups + 1
                    /\ UNCHANGED <<outcome, renders, resp>>
                ELSE
                    /\ pc' = "done"
                    /\ outcome' = b.outcome
                    /\ renders' = renders + 1
                    /\ resp' = FromOutcome(b.outcome)
                    /\ UNCHANGED <<uri, lookups>>

\* send returns Err: `?` returns it from handle_lookup_request and main
\* answers from its Err arm  (main.rs:118, 85-86)
SendFails ==
    /\ pc = "sending"
    /\ pc' = "done"
    /\ beresp' = SendError
    /\ resp' = ErrorResponse("<SendError>")
    /\ UNCHANGED <<req, uri, lookups, outcome, renders>>

\* send returns a response and the handler runs to its end  (main.rs:118-142)
SendReturns(r) ==
    /\ pc = "sending"
    /\ beresp' = r
    /\ UNCHANGED <<req, uri, lookups>>
    /\ LET a == AfterSend(r)
       IN  IF a.kind = "panic" THEN
                /\ pc' = "panicked"
                /\ UNCHANGED <<outcome, renders, resp>>
           ELSE
                /\ pc' = "done"
                /\ outcome' = a.outcome
                /\ renders' = renders + 1
                /\ resp' = FromOutcome(a.outcome)

\* a request arrives
Receive ==
    /\ pc = "start"
    /\ \E m \in Methods, p \in Paths, q \in QueryMaps : Main(m, p, q)

\* the resolver answers
Answer ==
    /\ pc = "sending"
    /\ \E r \in BackendResponses : SendReturns(r)

Next ==
    \/ Receive
    \/ SendFails
    \/ Answer

Spec == Init /\ [][Next]_vars

----------------------------------------------------------------------------
(* Vocabulary of the properties.  These are written from the meaning of    *)
(* the words (a dotted quad, a suffix, the first entry) and do not use     *)
(* the operators that model the handler.                                   *)

Handled == pc \in {"done", "panicked"}
VerifyRequest == req.method = "GET" /\ req.path = "/verify"
HasIp == \E kv \in req.qs_params : kv[1] = "ip"
IpText == (CHOOSE kv \in req.qs_params : kv[1] = "ip")[2]

RECURSIVE SplitOnDot(_)
SplitOnDot(s) ==
    IF \A i \in 1..Len(s) : s[i] # "." THEN <<s>>
    ELSE LET d == CHOOSE i \in 1..Len(s) : s[i] = "." /\ \A j \in 1..(i - 1) : s[j] # "."
         IN  <<SubSeq(s, 1, d - 1)>> \o SplitOnDot(SubSeq(s, d + 1, Len(s)))

DigitChars == {"0", "1", "2", "3", "4", "5", "6", "7", "8", "9"}

\* the decimal text of a number 0..255, by its shape
IsOctetText(p) ==
    /\ Len(p) \in 1..3
    /\ \A i \in 1..Len(p) : p[i] \in DigitChars
    /\ Len(p) > 1 => p[1] # "0"
    /\ Len(p) = 3 =>
          \/ p[1] = "1"
          \/ p[1] = "2" /\ p[2] \in {"0", "1", "2", "3", "4"}
          \/ p[1] = "2" /\ p[2] = "5" /\ p[3] \in {"0", "1", "2", "3", "4", "5"}

ValidDottedQuad(s) ==
    LET ps == SplitOnDot(s)
    IN  Len(ps) = 4 /\ \A i \in 1..4 : IsOctetText(ps[i])

IpIsValid == HasIp /\ ValidDottedQuad(IpText)

\* h is some text followed by suffix
Suffixed(h, suffix) == \E k \in 0..Len(h) : h = SubSeq(h, 1, k) \o suffix

GoogleName(h) ==
    \/ Suffixed(h, <<".", "g", "o", "o", "g", "l", "e", ".", "c", "o", "m", ".">>)
    \/ Suffixed(h, <<".", "g", "o", "o", "g", "l", "e", "b", "o", "t", ".", "c", "o", "m", ".">>)

\* the value of member k of a JSON object (Null when there is none)
Field(v, k) ==
    LET ms == IF v.t = "obj" THEN SelectSeq(v.v, LAMBDA m : m[1] = k) ELSE <<>>
    IN  IF ms = <<>> THEN JNull ELSE ms[Len(ms)][2]

\* the resolver answered with a success status and a body that parsed
ParsedBody ==
    /\ Handled
    /\ beresp.status \in 200..299
    /\ beresp.body.kind = "json"

AnswerField == Field(beresp.body.value, "Answer")
AnswerEntries == IF AnswerField.t = "arr" THEN AnswerField.v ELSE <<>>
FirstData == IF AnswerEntries # <<>> THEN Field(AnswerEntries[1], "data") ELSE JNull
FirstIsString == FirstData.t = "str"

LookupFailed ==
    /\ Handled
    /\ \/ beresp = SendError
       \/ beresp.body.kind \notin {"none", "send_error"} /\ beresp.status \notin 200..299

----------------------------------------------------------------------------
(* Properties *)

\* C1: a lookup that fails in transport (send returns an error) or comes
\* back with a non-success status is answered 502 with result "error" and
\* x-googlebot-verified: error, as GoogleDnsFailed, and in no other way.
C1_UpstreamFailureIs502 ==
    LookupFailed =>
        /\ pc = "done"
        /\ outcome = GoogleDnsFailed
        /\ resp.status = 502
        /\ resp.verified = "error"
        /\ resp.body.kind = "json" /\ resp.body.result = "error"

\* C2: a success status with a body that does not parse as JSON ends with a
\* 400 response whose plaintext body is "ERROR: <message>"; the handler
\* never ends without a response there.
C2_UnparseableBodyIs400 ==
    (Handled /\ beresp.status \in 200..299 /\ beresp.body.kind = "not_json") =>
        /\ pc = "done"
        /\ resp.status = 400
        /\ resp.body.kind = "text"
        /\ resp.body.text[1] = "ERROR: "

\* C3 as stated: Answer absent or empty gives NoPtrAnswer; in every other
\* case the outcome is IsGoogleBot or NotGoogleBot carrying the first
\* entry's data.
C3_AsStated ==
    ParsedBody =>
        IF Field(beresp.body.value, "Answer") = JNull \/ AnswerField = JArr(<<>>)
        THEN outcome = NoPtrAnswer
        ELSE /\ outcome.tag \in {"IsGoogleBot", "NotGoogleBot"}
             /\ JStr(outcome.ptr_record) = FirstData

\* C3: the outcome of a parsed response is decided by the data of the first
\* entry of Answer alone: no string there (Answer absent, not an array,
\* empty, or a first entry without a string data) gives NoPtrAnswer; a
\* string h there gives IsGoogleBot{h} or NotGoogleBot{h} according to h;
\* the entries after the first play no part.
C3_FirstEntryDecides ==
    ParsedBody =>
        IF FirstIsString
        THEN outcome = [tag |-> IF GoogleName(FirstData.v) THEN "IsGoogleBot" ELSE "NotGoogleBot",
                        ptr_record |-> FirstData.v]
        ELSE outcome = NoPtrAnswer

C3_Witness ==
    /\ ParsedBody
    /\ AnswerEntries = <<PtrEntry(HostEvilExample), PtrEntry(HostCrawl)>>
    /\ outcome = NotGoogleBot(HostEvilExample)

\* C4: a hostname h is verified (IsGoogleBot, result "yes") exactly when
\* it ends in ".google.com." or ".googlebot.com." as a case-sensitive
\* string suffix with the trailing dot; every other h is NotGoogleBot,
\* result "no".
C4_SuffixMatch ==
    (Handled /\ outcome.tag \in {"IsGoogleBot", "NotGoogleBot"}) =>
        /\ outcome.tag = "IsGoogleBot" <=> GoogleName(outcome.ptr_record)
        /\ resp.body.result = (IF GoogleName(outcome.ptr_record) THEN "yes" ELSE "no")
        /\ outcome.ptr_record \in
              {HostSubEvilGoogle, HostEvilGoogle, HostNoTrailingDot, HostUpper,
               HostMiddle, HostBareGoogle, HostEvilExample, HostEmpty}
              => outcome.tag = "NotGoogleBot"
        /\ outcome.ptr_record \in {HostCrawl, HostGoogle} => outcome.tag = "IsGoogleBot"

C4_Witness ==
    /\ pc = "done"
    /\ outcome = NotGoogleBot(HostMiddle)
    /\ resp.body.result = "no"

\* C5: every handled GET /verify request constructs exactly one of the six
\* Outcome variants and renders it exactly once into the response; no path
\* of the handler ends without an Outcome.
C5_OneOutcomePerRequest ==
    (Handled /\ VerifyRequest) =>
        /\ outcome.tag \in OutcomeTags
        /\ renders = 1
        /\ resp.body.kind = "json"
        /\ resp.verified = resp.body.result

\* C6: without an ip parameter the outcome is MissingQueryString with 400,
\* whatever else the query carries; with an ip that is no dotted-quad IPv4
\* literal it is InvalidQueryString with 400; any other outcome, and any
\* lookup, needs an ip that is a dotted quad.
C6_InputValidation ==
    (VerifyRequest /\ pc # "start") =>
        /\ ~HasIp => pc = "done" /\ outcome = MissingQueryString /\ resp.status = 400
        /\ (HasIp /\ ~ValidDottedQuad(IpText)) =>
              pc = "done" /\ outcome = InvalidQueryString /\ resp.status = 400
        /\ IpIsValid => outcome.tag \notin {"MissingQueryString", "InvalidQueryString"}
        /\ (pc = "sending" \/ lookups > 0) => IpIsValid

C6_Witness ==
    /\ pc = "done"
    /\ VerifyRequest
    /\ HasIp
    /\ IpText = <<"2", "5", "6", ".", "0", ".", "0", ".", "0">>
    /\ \E kv \in req.qs_params : kv[1] = "addr"
    /\ outcome = InvalidQueryString

\* C7: an Outcome is rendered by a fixed table: IsGoogleBot -> 200 "yes",
\* NotGoogleBot -> 200 "no", NoPtrAnswer -> 200 "no", MissingQueryString ->
\* 400 "error", InvalidQueryString -> 400 "error", GoogleDnsFailed -> 502
\* "error"; the x-googlebot-verified header equals the body's result, and
\* "yes" is the result of IsGoogleBot only.
C7_RenderingTable ==
    outcome # NoOutcome =>
        /\ <<resp.status, resp.body.result>> =
              CASE outcome.tag = "IsGoogleBot" -> <<200, "yes">>
                [] outcome.tag = "NotGoogleBot" -> <<200, "no">>
                [] outcome.tag = "NoPtrAnswer" -> <<200, "no">>
                [] outcome.tag = "MissingQueryString" -> <<400, "error">>
                [] outcome.tag = "InvalidQueryString" -> <<400, "error">>
                [] outcome.tag = "GoogleDnsFailed" -> <<502, "error">>
        /\ resp.body.kind = "json"
        /\ resp.verified = resp.body.result
        /\ resp.body.result = "yes" => outcome.tag = "IsGoogleBot"

C7_Witness ==
    /\ outcome = NoPtrAnswer
    /\ resp.status = 200
    /\ resp.verified = "no"

\* C8: for the address d1.d2.d3.d4 the lookup asks for the PTR record of
\* d4.d3.d2.d1.in-addr.arpa, the octets in decimal and in reverse order;
\* 1.2.3.4 gives 4.3.2.1.in-addr.arpa.
C8_ReverseQueryName ==
    lookups > 0 =>
        /\ HasIp
        /\ LET d == SplitOnDot(IpText)
           IN  /\ Len(d) = 4
               /\ uri = <<"https://dns.google.com/resolve?name=">>
                          \o d[4] \o <<".">> \o d[3] \o <<".">> \o d[2] \o <<".">> \o d[1]
                          \o <<".in-addr.arpa&type=PTR">>
        /\ IpText = Ip1234 =>
              uri = <<"https://dns.google.com/resolve?name=",
                      "4", ".", "3", ".", "2", ".", "1", ".in-addr.arpa&type=PTR">>

C8_Witness ==
    /\ pc = "sending"
    /\ HasIp
    /\ IpText = <<"0", ".", "2", "5", "5", ".", "0", ".", "0">>
    /\ uri = <<"https://dns.google.com/resolve?name=",
               "0", ".", "0", ".", "2", "5", "5", ".", "0", ".in-addr.arpa&type=PTR">>

\* C9: one request contacts the resolver at most once: no second lookup
\* after a failed one, no lookup for a request rejected by routing or by
\* validation, and a lookup before any of IsGoogleBot, NotGoogleBot,
\* NoPtrAnswer and GoogleDnsFailed.
C9_AtMostOneLookup ==
    /\ lookups <= 1
    /\ LookupFailed => lookups = 1 /\ pc = "done"
    /\ (pc # "start" /\ ~VerifyRequest) => lookups = 0 /\ resp.status = 404
    /\ outcome.tag \in {"MissingQueryString", "InvalidQueryString"} => lookups = 0
    /\ outcome.tag \in {"IsGoogleBot", "NotGoogleBot", "NoPtrAnswer", "GoogleDnsFailed"}
          => lookups = 1

C9_Witness ==
    /\ pc = "done"
    /\ beresp.status = 503
    /\ outcome = GoogleDnsFailed
    /\ lookups = 1

\* C10: when the first entry of Answer has no data or a data that is not a
\* string, or Answer is not an array, the outcome is NoPtrAnswer (200,
\* "no"); IsGoogleBot and NotGoogleBot occur only when Answer[0].data is a
\* string, and they carry that string and echo it in the reason.
C10_NonStringData ==
    ParsedBody =>
        /\ ~FirstIsString =>
              outcome = NoPtrAnswer /\ resp.status = 200 /\ resp.body.result = "no"
        /\ outcome.tag \in {"IsGoogleBot", "NotGoogleBot"} =>
              /\ FirstData = JStr(outcome.ptr_record)
              /\ resp.body.text[1] = "Reverse lookup is "
              /\ SubSeq(resp.body.text, 2, 1 + Len(outcome.ptr_record)) = FirstData.v
              /\ Len(resp.body.text) =
                    1 + Len(FirstData.v) + (IF outcome.tag = "IsGoogleBot" THEN 0 ELSE 1)

C10_Witness ==
    /\ ParsedBody
    /\ AnswerEntries = <<JObj(<< <<"data", JNum(12)>> >>)>>
    /\ outcome = NoPtrAnswer
    /\ resp.body.result = "no"

====
